---- MODULE Spec2Model ----
(***************************************************************************)
(* rayon_iter_concurrent_limit 0.2.0: iter_subdivide and the               *)
(* iter_concurrent_limit! macro, run over a work-stealing pool.            *)
(*                                                                         *)
(* One behaviour is one expansion of the macro: the call picks its code    *)
(* path from the limit and the method, iter_subdivide reshapes the         *)
(* iterator into chunks, the pool's workers take chunks, and each chunk is *)
(* driven by a sequential pass that invokes the caller's function item by  *)
(* item.  The counters threads_active / threads_active_max are the         *)
(* instrumentation of tests/common/mod.rs.                                 *)
(***************************************************************************)
EXTENDS Integers, Sequences, FiniteSets, TLC

\* ---- bounds of the model
MaxLen == 4        \* longest iterator
MaxLimit == 3      \* largest concurrent_limit
MaxThreads == 3    \* largest worker pool
MaxInner == 2      \* items of the parallel loop a function launches
UsizeBits == 4     \* width of the machine word (usize), scaled down
MaxFairLen == 3    \* longest iterator in the runs checked for termination
MaxBuf == 3        \* longest buffer behind an UnsafeCellSlice
MaxViews == 2      \* most views taken from one UnsafeCellSlice

\* ---- the eight arms of the macro
Methods == {"for_each", "try_for_each", "map", "update",
            "filter", "filter_map", "any", "all"}

\* method names the macro has no arm for (the TODO list of the source)
Unsupported == {"reduce", "fold", "flat_map", "find_any", "partition", "zip"}

\* for_each / try_for_each / any / all have the two limit fast paths
Eager == {"for_each", "try_for_each", "any", "all"}

\* map / update / filter / filter_map always go through iter_subdivide
Lazy == {"map", "update", "filter", "filter_map"}

\* the methods whose function has an outcome the model must choose
UsesOpSet == {"try_for_each", "filter", "filter_map", "any", "all"}

NoItem == -1

VARIABLES
    method,              \* $method
    concurrent_limit,    \* $concurrent_limit
    iterator,            \* $iterator, a range 0..N-1 as in the tests
    opset,               \* the items on which the caller's function "fires"
    num_threads,         \* workers of the pool
    pc,                  \* "call" | "running" | "done" | "panic"
    path,                \* "native" | "sequential" | "chunked"
    chunk_size,          \* iter_subdivide's chunk size (0: not called)
    chunks,              \* the work units, in order
    status,              \* per unit: "pending" | "running" | "done" | "skipped"
    pos,                 \* per unit: index of the current item of the pass
    open,                \* per unit: the function is executing on that item
    out,                 \* per unit: items the pass has produced
    brk,                 \* per unit: the item that ended the pass early
    full,                \* the engine's short-circuit flag
    threads_active,      \* tests/common: invocations started and not finished
    threads_active_max,  \* tests/common: the largest value seen at an exit
    ret,                 \* what the call returns
    calls,               \* per item of the iterator: times the function was entered
    nested,              \* the function launches a parallel loop of its own
    inner_left,          \* per unit: items of that loop not yet begun
    inner_own,           \* per unit: the unit's worker is running one of them
    helpers,             \* per unit: other workers running one of them
    host,                \* per unit: the unit whose blocked worker runs it, or 0
    chained,             \* a further map is chained on the macro's handle
    down,                \* per unit: where the item is in the chained closure
    threads_active_map,      \* chained closures entered and not yet left
    threads_active_map_max,  \* largest value the closure's exit has recorded
    ctor,                \* how the UnsafeCellSlice is made: "new" | "new_from_vec_with_spare_capacity"
    data,                \* the buffer: the slice, or the Vec's whole allocation
    vec_len,             \* the Vec's len (0 for a slice)
    cells,               \* the UnsafeCellSlice (self.0): where it begins, its length
    views,               \* the slices as_mut_slice has returned
    cell_pc              \* "off" | "new" | "ready" | "panic"

vars == <<method, concurrent_limit, iterator, opset, num_threads, pc, path,
          chunk_size, chunks, status, pos, open, out, brk, full,
          threads_active, threads_active_max, ret, calls,
          nested, inner_left, inner_own, helpers, host,
          chained, down, threads_active_map, threads_active_map_max,
          ctor, data, vec_len, cells, views, cell_pc>>

cellvars == <<ctor, data, vec_len, cells, views, cell_pc>>

chainvars == <<chained, down, threads_active_map, threads_active_map_max>>

nestvars == <<nested, inner_left, inner_own, helpers, host>>

\* ---- helpers
max(a, b) == IF a >= b THEN a ELSE b

\* usize: the largest value, and a result reduced to the word
UsizeMax == 2 ^ UsizeBits - 1

usize_wrap(x) == x % (UsizeMax + 1)

Range(n) == [i \in 1..n |-> i - 1]

RECURSIVE Flatten(_)
Flatten(ss) == IF Len(ss) = 0 THEN <<>> ELSE Head(ss) \o Flatten(Tail(ss))

RECURSIVE SumLen(_)
SumLen(ss) == IF Len(ss) = 0 THEN 0 ELSE Len(Head(ss)) + SumLen(Tail(ss))

\* ---- the caller's functions (the closures of the tests and doc examples)
map_op(i) == i * 2

update_op(i) == i + 1

filter_op(i) == i \in opset

\* Option<usize>: <<v>> is Some(v), <<>> is None
filter_map_op(i) == IF i \in opset THEN <<i * 2>> ELSE <<>>

predicate(i) == i \in opset

\* Result<(), E>: NoItem is Ok(()), i is Err(i)
try_op(i) == IF i \in opset THEN i ELSE NoItem

\* a chunking that keeps only the full windows (the short tail is lost)
RECURSIVE chunks_exact(_, _)
chunks_exact(iter, size) ==
    IF size = 0 \/ Len(iter) < size THEN <<>>
    ELSE <<SubSeq(iter, 1, size)>> \o chunks_exact(SubSeq(iter, size + 1, Len(iter)), size)

\* ---- IndexedParallelIterator::chunks: fixed-size contiguous windows, the
\* last one shorter when the size does not divide the length (a size of 0
\* trips the engine's assertion: no chunks, the call panics)
RECURSIVE Chunks(_, _)
Chunks(iter, size) ==
    IF Len(iter) = 0 \/ size = 0 THEN <<>>
    ELSE IF Len(iter) <= size THEN <<iter>>
    ELSE <<SubSeq(iter, 1, size)>> \o Chunks(SubSeq(iter, size + 1, Len(iter)), size)

\* the chunk size rounded down instead of up
chunk_size_floor(num_chunks, len) ==
    IF num_chunks = 0
    THEN 1
    ELSE max(len \div num_chunks, 1)

\* a limit of 0 read as a limit of 1: everything in one chunk
chunk_size_zero_as_one(num_chunks, len) ==
    IF num_chunks = 0
    THEN max(len, 1)
    ELSE max((len + num_chunks - 1) \div num_chunks, 1)

\* the rounded-up quotient without the floor of 1
chunk_size_no_min(num_chunks, len) ==
    IF num_chunks = 0
    THEN 1
    ELSE (len + num_chunks - 1) \div num_chunks

\* ---- iter_subdivide: std::cmp::max((len + num_chunks - 1) / num_chunks, 1)
\* in usize arithmetic, with the value a build without overflow checks
\* computes (the sum and the difference wrap)
subdivide_chunk_size(num_chunks, len) ==
    IF num_chunks = 0
    THEN 1
    ELSE max(usize_wrap(usize_wrap(len + num_chunks) - 1) \div num_chunks, 1)

\* len + num_chunks does not fit the word: a build with overflow checks
\* panics there ("attempt to add with overflow")
subdivide_overflows(num_chunks, len) ==
    num_chunks # 0 /\ len + num_chunks > UsizeMax

\* num_chunks handed to chunks() as if it were the chunk size
iter_subdivide_count_as_size(num_chunks, iter) ==
    Chunks(iter, max(num_chunks, 1))

\* the length taken from the last item (the end of a range) instead of len()
iter_subdivide_range_end(num_chunks, iter) ==
    Chunks(iter, subdivide_chunk_size(num_chunks,
                     IF Len(iter) = 0 THEN 0 ELSE iter[Len(iter)] + 1))

iter_subdivide(num_chunks, iter) ==
    Chunks(iter, subdivide_chunk_size(num_chunks, Len(iter)))

\* a catch-all arm that expands to the unlimited for_each
macro_arm_fallthrough(m) == IF m \in Methods THEN m ELSE "for_each"

\* ---- the arm of macro_rules! that matches the method identifier: one of the
\* eight, or the catch-all arm whose expansion is std::compile_error!
macro_arm(m) == IF m \in Methods THEN m ELSE "compile_error"

\* the two fast paths with their conditions exchanged
select_path_swapped(m, limit) ==
    IF m \in Eager /\ limit = 1 THEN "native"
    ELSE IF m \in Eager /\ limit = 0 THEN "sequential"
    ELSE "chunked"

\* ---- the macro's choice of code path
select_path(m, limit) ==
    IF m \in Eager /\ limit = 0 THEN "native"
    ELSE IF m \in Eager /\ limit = 1 THEN "sequential"
    ELSE "chunked"

\* the work units of a path: into_par_iter() hands the engine single items,
\* into_iter() is one pass on the calling thread, iter_subdivide gives chunks
work_units(p, limit, iter) ==
    IF p = "native" THEN [i \in 1..Len(iter) |-> <<iter[i]>>]
    ELSE IF p = "sequential" THEN <<iter>>
    ELSE iter_subdivide(limit, iter)

Units == DOMAIN chunks

NoRet == [tag |-> "none", err |-> NoItem, bool |-> FALSE, vec |-> <<>>]

\* no UnsafeCellSlice has been made
NoCell ==
    /\ ctor = "none"
    /\ data = <<>>
    /\ vec_len = 0
    /\ cells = [ptr |-> 0, len |-> 0]
    /\ views = <<>>
    /\ cell_pc = "off"

\* the state before the macro's expression is evaluated
Start ==
    /\ pc = "call"
    /\ path = "none"
    /\ chunk_size = 0
    /\ chunks = <<>>
    /\ status = <<>>
    /\ pos = <<>>
    /\ open = <<>>
    /\ out = <<>>
    /\ brk = <<>>
    /\ full = FALSE
    /\ threads_active = 0
    /\ threads_active_max = 0
    /\ ret = NoRet
    /\ calls = [i \in DOMAIN iterator |-> 0]
    /\ inner_left = <<>>
    /\ inner_own = <<>>
    /\ helpers = <<>>
    /\ host = <<>>
    /\ down = <<>>
    /\ threads_active_map = 0
    /\ threads_active_map_max = 0

\* any method, any limit, any range up to MaxLen, any outcome of the function
Init ==
    /\ method \in Methods \cup Unsupported
    /\ concurrent_limit \in 0..MaxLimit
    /\ \E n \in 0..MaxLen :
          /\ iterator = Range(n)
          /\ opset \in IF method \in UsesOpSet THEN SUBSET (0..(n - 1)) ELSE {{}}
    /\ num_threads \in 1..MaxThreads
    /\ nested = FALSE
    /\ chained = FALSE
    /\ Start
    /\ NoCell

\* ---- the macro is expanded and evaluated up to the engine call
Call ==
    /\ pc = "call"
    /\ LET arm == macro_arm(method)
           p == IF arm = "compile_error" THEN "none"
                ELSE select_path(arm, concurrent_limit)
           u == IF arm = "compile_error" THEN <<>>
                ELSE work_units(p, concurrent_limit, iterator)
           size == IF p = "chunked"
                   THEN subdivide_chunk_size(concurrent_limit, Len(iterator))
                   ELSE 0
       IN  /\ path' = p
           /\ chunk_size' = size
           /\ chunks' = u
           /\ status' = [c \in DOMAIN u |-> "pending"]
           /\ pos' = [c \in DOMAIN u |-> 0]
           /\ open' = [c \in DOMAIN u |-> FALSE]
           /\ out' = [c \in DOMAIN u |-> <<>>]
           /\ brk' = [c \in DOMAIN u |-> NoItem]
           /\ inner_left' = [c \in DOMAIN u |-> 0]
           /\ inner_own' = [c \in DOMAIN u |-> FALSE]
           /\ helpers' = [c \in DOMAIN u |-> 0]
           /\ host' = [c \in DOMAIN u |-> 0]
           /\ down' = [c \in DOMAIN u |-> "none"]
           /\ pc' \in IF arm = "compile_error" THEN {"compile_error"}
                      ELSE IF p = "chunked" /\ size = 0 THEN {"panic"}
                      ELSE IF p = "chunked"
                              /\ subdivide_overflows(concurrent_limit, Len(iterator))
                           THEN {"panic", "running"}
                      ELSE {"running"}
    /\ UNCHANGED cellvars
    /\ UNCHANGED <<method, concurrent_limit, iterator, opset, num_threads,
                   full, threads_active, threads_active_max, ret, calls,
                   nested, chained, threads_active_map, threads_active_map_max>>

\* ---- a worker takes a pending unit and begins its sequential pass.  The
\* engine consults its short-circuit flag before handing out a unit; the
\* limit == 1 pass runs on the calling thread and needs no worker.
Running == {c \in Units : status[c] = "running"}

RECURSIVE Sum(_)
Sum(ns) == IF Len(ns) = 0 THEN 0 ELSE Head(ns) + Sum(Tail(ns))

\* the pool's workers in use: one under each stack of units (a unit taken by
\* a blocked worker shares that worker), one per helper of a nested loop; the
\* limit == 1 pass is on the calling thread
workers_busy ==
    Cardinality({c \in Running : host[c] = 0 /\ path # "sequential"}) + Sum(helpers)

worker_available == path = "sequential" \/ workers_busy < num_threads

\* an engine that keeps handing out units after a terminating result
engine_ignores_flag == TRUE

\* cooperative cancellation: no unit is handed out once the flag is up
engine_may_start == ~full

StartChunk(c) ==
    /\ pc = "running"
    /\ status[c] = "pending"
    /\ engine_may_start
    /\ worker_available
    /\ status' = [status EXCEPT ![c] = IF Len(chunks[c]) = 0 THEN "done" ELSE "running"]
    /\ pos' = [pos EXCEPT ![c] = 1]
    /\ UNCHANGED cellvars
    /\ UNCHANGED <<method, concurrent_limit, iterator, opset, num_threads, pc,
                   path, chunk_size, chunks, open, out, brk, full,
                   threads_active, threads_active_max, ret, calls>>
    /\ UNCHANGED nestvars
    /\ UNCHANGED chainvars

\* a pass that walks its chunk from the back
item_index_rev(c) ==
    SumLen(SubSeq(chunks, 1, c - 1)) + (Len(chunks[c]) - pos[c] + 1)

\* the place in the iterator of the item the pass of unit c is at
item_index(c) == SumLen(SubSeq(chunks, 1, c - 1)) + pos[c]

\* ---- the pass reaches its next item and the caller's function is entered
\* (incr_active_operations at the top of the instrumented closure)
Invoke(c) ==
    /\ pc = "running"
    /\ status[c] = "running"
    /\ ~open[c]
    /\ down[c] = "none"
    /\ open' = [open EXCEPT ![c] = TRUE]
    /\ threads_active' = threads_active + 1
    /\ calls' = [calls EXCEPT ![item_index(c)] = @ + 1]
    /\ inner_left' = [inner_left EXCEPT ![c] = IF nested THEN MaxInner ELSE 0]
    /\ UNCHANGED cellvars
    /\ UNCHANGED <<method, concurrent_limit, iterator, opset, num_threads, pc,
                   path, chunk_size, chunks, status, pos, out, brk, full,
                   threads_active_max, ret, nested, inner_own, helpers, host>>
    /\ UNCHANGED chainvars

\* the pass's output built back to front
pass_out_rev(m, o, item) ==
    IF m = "map" THEN <<map_op(item)>> \o o
    ELSE IF m = "update" THEN <<update_op(item)>> \o o
    ELSE IF m = "filter" THEN (IF filter_op(item) THEN <<item>> \o o ELSE o)
    ELSE IF m = "filter_map" THEN filter_map_op(item) \o o
    ELSE o

\* update whose closure runs the function on the item twice
pass_out_update_twice(m, o, item) ==
    IF m = "map" THEN Append(o, map_op(item))
    ELSE IF m = "update" THEN Append(o, update_op(update_op(item)))
    ELSE IF m = "filter" THEN (IF filter_op(item) THEN Append(o, item) ELSE o)
    ELSE IF m = "filter_map" THEN o \o filter_map_op(item)
    ELSE o

\* ---- what one item adds to the pass's output (map / update / filter /
\* filter_map inside flat_map_iter)
pass_out(m, o, item) ==
    IF m = "map" THEN Append(o, map_op(item))
    ELSE IF m = "update" THEN Append(o, update_op(item))
    ELSE IF m = "filter" THEN (IF filter_op(item) THEN Append(o, item) ELSE o)
    ELSE IF m = "filter_map" THEN o \o filter_map_op(item)
    ELSE o

\* all with the polarity of any
pass_brk_all_as_any(m, item) ==
    IF m = "try_for_each" THEN try_op(item)
    ELSE IF m \in {"any", "all"} THEN (IF predicate(item) THEN item ELSE NoItem)
    ELSE NoItem

\* try_for_each that drops the function's result, as for_each does
pass_brk_drop_err(m, item) ==
    IF m = "any" THEN (IF predicate(item) THEN item ELSE NoItem)
    ELSE IF m = "all" THEN (IF predicate(item) THEN NoItem ELSE item)
    ELSE NoItem

\* ---- whether one item ends the pass early (the sequential try_for_each /
\* any / all of std): the item that did, or NoItem
pass_brk(m, item) ==
    IF m = "try_for_each" THEN try_op(item)
    ELSE IF m = "any" THEN (IF predicate(item) THEN item ELSE NoItem)
    ELSE IF m = "all" THEN (IF predicate(item) THEN NoItem ELSE item)
    ELSE NoItem

\* a pass that also looks at the engine's flag and stops when it is up
pass_over_preempted(c, b) == pos[c] = Len(chunks[c]) \/ b # NoItem \/ full

\* a pass that stops before the last item of its chunk
pass_over_one_short(c, b) == pos[c] >= Len(chunks[c]) - 1 \/ b # NoItem

\* a pass that goes on to the end of its chunk whatever the function returns
pass_over_no_break(c, b) == pos[c] = Len(chunks[c])

\* the pass is over after this item: it was the last one, or it ended the pass
pass_over(c, b) == pos[c] = Len(chunks[c]) \/ b # NoItem

\* the engine raises its short-circuit flag when a unit reports a terminating
\* result; the limit == 1 pass has no engine under it
raises_flag(p, b) == p # "sequential" /\ b # NoItem

\* units a blocked worker took on top of unit c and has not finished
stacked_on(c) == {d \in Units : host[d] = c /\ status[d] = "running"}

\* the nested loop of unit c's open invocation has been joined: every item of
\* it has run to its end, and the worker is back from anything it took while
\* it was blocked
inner_joined(c) ==
    /\ inner_left[c] = 0
    /\ ~inner_own[c]
    /\ helpers[c] = 0
    /\ stacked_on(c) = {}

\* ---- the caller's function returns (calc_active_operations at the bottom of
\* the instrumented closure: fetch_sub, then fetch_max of the value it read);
\* the pass moves on, or ends and hands the unit's result to the engine
Return(c) ==
    /\ pc = "running"
    /\ status[c] = "running"
    /\ open[c]
    /\ inner_joined(c)
    /\ LET item == chunks[c][pos[c]]
           b == pass_brk(method, item)
       IN  /\ out' = [out EXCEPT ![c] = pass_out(method, out[c], item)]
           /\ brk' = [brk EXCEPT ![c] = b]
           /\ IF pass_over(c, b)
              THEN /\ status' = [status EXCEPT ![c] = "done"]
                   /\ full' = (full \/ raises_flag(path, b))
                   /\ host' = [host EXCEPT ![c] = 0]
              ELSE UNCHANGED <<status, full, host>>
    /\ open' = [open EXCEPT ![c] = FALSE]
    /\ pos' = [pos EXCEPT ![c] = pos[c] + 1]
    /\ threads_active_max' = max(threads_active_max, threads_active)
    /\ threads_active' = threads_active - 1
    /\ UNCHANGED cellvars
    /\ UNCHANGED <<method, concurrent_limit, iterator, opset, num_threads, pc,
                   path, chunk_size, chunks, ret, calls,
                   nested, inner_left, inner_own, helpers>>
    /\ UNCHANGED chainvars

\* ---- the engine drops a unit it has not started once the flag is up
SkipChunk(c) ==
    /\ pc = "running"
    /\ status[c] = "pending"
    /\ full
    /\ status' = [status EXCEPT ![c] = "skipped"]
    /\ UNCHANGED cellvars
    /\ UNCHANGED <<method, concurrent_limit, iterator, opset, num_threads, pc,
                   path, chunk_size, chunks, pos, open, out, brk, full,
                   threads_active, threads_active_max, ret, calls>>
    /\ UNCHANGED nestvars
    /\ UNCHANGED chainvars

\* ---- the engine's combination of the units' results
broken == {brk[c] : c \in {d \in Units : brk[d] # NoItem}}

\* flat_map_iter + collect: the units' outputs in unit order
collect(outs) == Flatten(outs)

results ==
    IF method = "for_each" THEN {[NoRet EXCEPT !.tag = "unit"]}
    ELSE IF method = "try_for_each" THEN
        IF broken = {} THEN {[NoRet EXCEPT !.tag = "ok"]}
        ELSE {[NoRet EXCEPT !.tag = "err", !.err = e] : e \in broken}
    ELSE IF method = "any" THEN {[NoRet EXCEPT !.tag = "bool", !.bool = (broken # {})]}
    ELSE IF method = "all" THEN {[NoRet EXCEPT !.tag = "bool", !.bool = (broken = {})]}
    ELSE {[NoRet EXCEPT !.tag = "vec", !.vec = collect(out)]}

\* ---- every unit is finished or dropped: the call returns
Finish ==
    /\ pc = "running"
    /\ \A c \in Units : status[c] \in {"done", "skipped"}
    /\ ret' \in results
    /\ pc' = "done"
    /\ UNCHANGED cellvars
    /\ UNCHANGED <<method, concurrent_limit, iterator, opset, num_threads,
                   path, chunk_size, chunks, status, pos, open, out, brk, full,
                   threads_active, threads_active_max, calls>>
    /\ UNCHANGED nestvars
    /\ UNCHANGED chainvars

Next ==
    \/ Call
    \/ \E c \in Units : StartChunk(c)
    \/ \E c \in Units : Invoke(c)
    \/ \E c \in Units : Return(c)
    \/ \E c \in Units : SkipChunk(c)
    \/ Finish

Spec == Init /\ [][Next]_vars

\* ---- the scenario of the try_for_each test, with a failing item: limit 2,
\* the range 0..10, a function that fails on item 4 only
InitTry ==
    /\ method = "try_for_each"
    /\ concurrent_limit = 2
    /\ iterator = Range(10)
    /\ opset = {4}
    /\ num_threads \in 1..MaxThreads
    /\ nested = FALSE
    /\ chained = FALSE
    /\ Start
    /\ NoCell

SpecTry == InitTry /\ [][Next]_vars

\* ---- a function that launches a parallel loop of its own on the same pool
\* ((0..10).into_par_iter().for_each(..) inside the closures of the tests).
\* The worker that entered the function runs items of the loop itself; idle
\* workers steal the others.

\* the worker of unit c begins an item of its own loop (the limit == 1 pass
\* is on the calling thread, outside the pool: it only waits for the pool)
InnerOwnStart(c) ==
    /\ pc = "running"
    /\ open[c]
    /\ path # "sequential"
    /\ inner_left[c] > 0
    /\ ~inner_own[c]
    /\ inner_left' = [inner_left EXCEPT ![c] = @ - 1]
    /\ inner_own' = [inner_own EXCEPT ![c] = TRUE]
    /\ UNCHANGED cellvars
    /\ UNCHANGED <<method, concurrent_limit, iterator, opset, num_threads, pc,
                   path, chunk_size, chunks, status, pos, open, out, brk, full,
                   threads_active, threads_active_max, ret, calls,
                   nested, helpers, host>>
    /\ UNCHANGED chainvars

InnerOwnEnd(c) ==
    /\ pc = "running"
    /\ inner_own[c]
    /\ inner_own' = [inner_own EXCEPT ![c] = FALSE]
    /\ UNCHANGED cellvars
    /\ UNCHANGED <<method, concurrent_limit, iterator, opset, num_threads, pc,
                   path, chunk_size, chunks, status, pos, open, out, brk, full,
                   threads_active, threads_active_max, ret, calls,
                   nested, inner_left, helpers, host>>
    /\ UNCHANGED chainvars

\* an idle worker of the pool takes an item of unit c's loop
InnerSteal(c) ==
    /\ pc = "running"
    /\ open[c]
    /\ inner_left[c] > 0
    /\ workers_busy < num_threads
    /\ inner_left' = [inner_left EXCEPT ![c] = @ - 1]
    /\ helpers' = [helpers EXCEPT ![c] = @ + 1]
    /\ UNCHANGED cellvars
    /\ UNCHANGED <<method, concurrent_limit, iterator, opset, num_threads, pc,
                   path, chunk_size, chunks, status, pos, open, out, brk, full,
                   threads_active, threads_active_max, ret, calls,
                   nested, inner_own, host>>
    /\ UNCHANGED chainvars

InnerHelperEnd(c) ==
    /\ pc = "running"
    /\ helpers[c] > 0
    /\ helpers' = [helpers EXCEPT ![c] = @ - 1]
    /\ UNCHANGED cellvars
    /\ UNCHANGED <<method, concurrent_limit, iterator, opset, num_threads, pc,
                   path, chunk_size, chunks, status, pos, open, out, brk, full,
                   threads_active, threads_active_max, ret, calls,
                   nested, inner_left, inner_own, host>>
    /\ UNCHANGED chainvars

\* the worker of unit c has nothing of its loop left to run and waits for the
\* items other workers took
blocked_in_join(c) ==
    /\ open[c]
    /\ path # "sequential"
    /\ inner_left[c] = 0
    /\ ~inner_own[c]
    /\ helpers[c] > 0
    /\ stacked_on(c) = {}

\* ---- a worker waiting in a join looks for other work and finds a unit that
\* has not started: it runs that unit's pass on top of the invocation it is in
StealChunk(c, d) ==
    /\ pc = "running"
    /\ blocked_in_join(c)
    /\ status[d] = "pending"
    /\ engine_may_start
    /\ status' = [status EXCEPT ![d] = IF Len(chunks[d]) = 0 THEN "done" ELSE "running"]
    /\ pos' = [pos EXCEPT ![d] = 1]
    /\ host' = [host EXCEPT ![d] = IF Len(chunks[d]) = 0 THEN 0 ELSE c]
    /\ UNCHANGED cellvars
    /\ UNCHANGED <<method, concurrent_limit, iterator, opset, num_threads, pc,
                   path, chunk_size, chunks, open, out, brk, full,
                   threads_active, threads_active_max, ret, calls,
                   nested, inner_left, inner_own, helpers>>
    /\ UNCHANGED chainvars

\* the scenarios of tests/map.rs and tests/any.rs: a limit of at least 1, a
\* function that launches a nested loop
InitNested ==
    /\ method \in {"map", "any"}
    /\ concurrent_limit \in 1..MaxLimit
    /\ \E n \in 0..MaxLen :
          /\ iterator = Range(n)
          /\ opset \in IF method = "any"
                       THEN {{}} \cup {{i} : i \in 0..(n - 1)}
                       ELSE {{}}
    /\ num_threads \in 1..MaxThreads
    /\ nested = TRUE
    /\ chained = FALSE
    /\ Start
    /\ NoCell

NextNested ==
    \/ Next
    \/ \E c \in Units : InnerOwnStart(c)
    \/ \E c \in Units : InnerOwnEnd(c)
    \/ \E c \in Units : InnerSteal(c)
    \/ \E c \in Units : InnerHelperEnd(c)
    \/ \E c, d \in Units : StealChunk(c, d)

SpecNested == InitNested /\ [][NextNested]_vars

\* ---- a further map chained on the handle the macro returns for map, then
\* collected (tests/readme.rs).  The handle is lazy: the collecting fold of a
\* chunk pulls one item at a time through the macro's function and then
\* through the chained closure.
ReadmeN == 1000

\* alloc.into_par_iter().sum() of vec![i; N]
readme_op(i) == i * ReadmeN

\* alloc_sum / N
readme_map(alloc_sum) == alloc_sum \div ReadmeN

\* the macro's function returns; its result goes to the chained closure
ReturnChained(c) ==
    /\ pc = "running"
    /\ chained
    /\ status[c] = "running"
    /\ open[c]
    /\ inner_joined(c)
    /\ open' = [open EXCEPT ![c] = FALSE]
    /\ threads_active_max' = max(threads_active_max, threads_active)
    /\ threads_active' = threads_active - 1
    /\ down' = [down EXCEPT ![c] = "ready"]
    /\ UNCHANGED cellvars
    /\ UNCHANGED <<method, concurrent_limit, iterator, opset, num_threads, pc,
                   path, chunk_size, chunks, status, pos, out, brk, full, ret,
                   calls, chained, threads_active_map, threads_active_map_max>>
    /\ UNCHANGED nestvars

\* the chained closure is entered (incr_active_operations(&threads_active_map))
ChainInvoke(c) ==
    /\ pc = "running"
    /\ down[c] = "ready"
    /\ down' = [down EXCEPT ![c] = "open"]
    /\ threads_active_map' = threads_active_map + 1
    /\ UNCHANGED cellvars
    /\ UNCHANGED <<method, concurrent_limit, iterator, opset, num_threads, pc,
                   path, chunk_size, chunks, status, pos, open, out, brk, full,
                   threads_active, threads_active_max, ret, calls,
                   chained, threads_active_map_max>>
    /\ UNCHANGED nestvars

\* the chained closure returns (calc_active_operations(&threads_active_map,
\* ..)); its result is the collected item, and the pass moves on or ends
ChainReturn(c) ==
    /\ pc = "running"
    /\ down[c] = "open"
    /\ LET item == chunks[c][pos[c]]
       IN  out' = [out EXCEPT ![c] = Append(out[c], readme_map(readme_op(item)))]
    /\ IF pos[c] = Len(chunks[c])
       THEN /\ status' = [status EXCEPT ![c] = "done"]
            /\ host' = [host EXCEPT ![c] = 0]
       ELSE UNCHANGED <<status, host>>
    /\ pos' = [pos EXCEPT ![c] = pos[c] + 1]
    /\ down' = [down EXCEPT ![c] = "none"]
    /\ threads_active_map_max' = max(threads_active_map_max, threads_active_map)
    /\ threads_active_map' = threads_active_map - 1
    /\ UNCHANGED cellvars
    /\ UNCHANGED <<method, concurrent_limit, iterator, opset, num_threads, pc,
                   path, chunk_size, chunks, open, brk, full,
                   threads_active, threads_active_max, ret, calls, chained,
                   nested, inner_left, inner_own, helpers>>

\* the readme scenario: map with a limit of at least 1, a function that runs
\* a parallel sum, a chained map, collect
InitChain ==
    /\ method = "map"
    /\ concurrent_limit \in 1..MaxLimit
    /\ \E n \in 0..MaxLen : iterator = Range(n)
    /\ opset = {}
    /\ num_threads \in 1..MaxThreads
    /\ nested = TRUE
    /\ chained = TRUE
    /\ Start
    /\ NoCell

NextChain ==
    \/ Call
    \/ \E c \in Units : StartChunk(c)
    \/ \E c \in Units : Invoke(c)
    \/ \E c \in Units : InnerOwnStart(c)
    \/ \E c \in Units : InnerOwnEnd(c)
    \/ \E c \in Units : InnerSteal(c)
    \/ \E c \in Units : InnerHelperEnd(c)
    \/ \E c, d \in Units : StealChunk(c, d)
    \/ \E c \in Units : ReturnChained(c)
    \/ \E c \in Units : ChainInvoke(c)
    \/ \E c \in Units : ChainReturn(c)
    \/ Finish

SpecChain == InitChain /\ [][NextChain]_vars

\* ---- iter_subdivide over the whole word: the lazy handle of map is built
\* for any limit and any length a usize can hold, and not consumed
InitWord ==
    /\ method = "map"
    /\ concurrent_limit \in 0..UsizeMax
    /\ \E n \in 0..UsizeMax : iterator = Range(n)
    /\ opset = {}
    /\ num_threads = 1
    /\ nested = FALSE
    /\ chained = FALSE
    /\ Start
    /\ NoCell

SpecWord == InitWord /\ [][Call]_vars

(***************************************************************************)
(* unsafe_cell_slice: a handle on a buffer that gives out mutable slices   *)
(***************************************************************************)

callvars == <<method, concurrent_limit, iterator, opset, num_threads, pc, path,
              chunk_size, chunks, status, pos, open, out, brk, full,
              threads_active, threads_active_max, ret, calls>>

\* the buffers a caller can hold: sequences of bytes up to MaxBuf long
Buffers == UNION {[1..n -> {0, 1}] : n \in 0..MaxBuf}

\* a slice is written as where it begins in the buffer and its length;
\* vec.spare_capacity_mut() is the slice from len to capacity
vec_spare_capacity_to_mut_slice(len, capacity) ==
    [ptr |-> len, len |-> capacity - len]

\* UnsafeCellSlice::new: the same region, seen as cells
new(slice) == [ptr |-> slice.ptr, len |-> slice.len]

new_from_vec_with_spare_capacity(len, capacity) ==
    new(vec_spare_capacity_to_mut_slice(len, capacity))

\* self.0[0]: indexing the first cell, which panics when there is none
first_cell(self) == IF self.len = 0 THEN "panic" ELSE "ok"

\* from_raw_parts_mut(ptr, self.0.len())
as_mut_slice(self) == [ptr |-> self.ptr, len |-> self.len]

\* a caller holds a slice of any contents, or a Vec with any len and capacity
\* (the spare capacity is uninitialised: it holds any bytes)
InitCell ==
    /\ method = "for_each"
    /\ concurrent_limit = 0
    /\ iterator = <<>>
    /\ opset = {}
    /\ num_threads = 1
    /\ nested = FALSE
    /\ chained = FALSE
    /\ Start
    /\ ctor \in {"new", "new_from_vec_with_spare_capacity"}
    /\ data \in Buffers
    /\ vec_len \in IF ctor = "new" THEN {0} ELSE 0..Len(data)
    /\ cells = [ptr |-> 0, len |-> 0]
    /\ views = <<>>
    /\ cell_pc = "new"

\* ---- the handle is made
CellNew ==
    /\ cell_pc = "new"
    /\ cells' = IF ctor = "new"
                THEN new([ptr |-> 0, len |-> Len(data)])
                ELSE new_from_vec_with_spare_capacity(vec_len, Len(data))
    /\ cell_pc' = "ready"
    /\ UNCHANGED <<ctor, data, vec_len, views>>
    /\ UNCHANGED <<callvars, nestvars, chainvars>>

\* ---- as_mut_slice is called on the handle (any number of times)
AsMutSlice ==
    /\ cell_pc = "ready"
    /\ Len(views) < MaxViews
    /\ IF first_cell(cells) = "panic"
       THEN /\ cell_pc' = "panic"
            /\ UNCHANGED views
       ELSE /\ views' = Append(views, as_mut_slice(cells))
            /\ UNCHANGED cell_pc
    /\ UNCHANGED <<ctor, data, vec_len, cells>>
    /\ UNCHANGED <<callvars, nestvars, chainvars>>

\* ---- the caller writes x to element i of the v-th slice it was given
WriteView(v, i, x) ==
    /\ cell_pc = "ready"
    /\ v \in DOMAIN views
    /\ i \in 0..(views[v].len - 1)
    /\ data' = [data EXCEPT ![views[v].ptr + i + 1] = x]
    /\ UNCHANGED <<ctor, vec_len, cells, views, cell_pc>>
    /\ UNCHANGED <<callvars, nestvars, chainvars>>

NextCell ==
    \/ CellNew
    \/ AsMutSlice
    \/ \E v \in 1..MaxViews, i \in 0..(MaxBuf - 1), x \in {0, 1} : WriteView(v, i, x)

SpecCell == InitCell /\ [][NextCell]_vars


(***************************************************************************)
(* Reference notions the claims are stated against                         *)
(***************************************************************************)
N == Len(iterator)

min(a, b) == IF a <= b THEN a ELSE b

\* the ceiling of a / b, by its defining property
CeilDiv(a, b) == CHOOSE q \in 0..a : q * b >= a /\ (q = 0 \/ (q - 1) * b < a)

OpenUnits == {c \in Units : open[c]}

Dispatched == pc \in {"running", "done"}

\* iter_subdivide has been called and has returned its chunks
Subdivided == Dispatched /\ path = "chunked"

\* the plain sequential forms of std
SeqMap == [i \in 1..N |-> map_op(iterator[i])]

SeqFilter == SelectSeq(iterator, filter_op)

SeqFilterMap == Flatten([i \in 1..N |-> filter_map_op(iterator[i])])

SeqAny == \E i \in 1..N : predicate(iterator[i])

SeqAll == \A i \in 1..N : predicate(iterator[i])

\* the failures the function returns on the items of the sequence
Failures == {try_op(iterator[i]) : i \in 1..N} \ {NoItem}

(***************************************************************************)
(* Claims                                                                  *)
(***************************************************************************)

\* C1: with a limit K >= 1, for every method and scheduling, the invocations
\* of the caller's function that have started and not finished never number
\* more than K.
C1_OpenAtMostLimit ==
    concurrent_limit >= 1 =>
        /\ Cardinality(OpenUnits) <= concurrent_limit
        /\ threads_active <= concurrent_limit

\* the limit is met: K >= 2 chunks are all inside the function at once
C1_Witness ==
    /\ concurrent_limit >= 2
    /\ path = "chunked"
    /\ Cardinality(OpenUnits) = concurrent_limit

\* C2: the chunks of iter_subdivide (any num_chunks, 0 included) have
\* lengths that sum to N and concatenate, in chunk order, to the sequence.
C2_ChunksPartition ==
    Subdivided =>
        /\ SumLen(chunks) = N
        /\ Flatten(chunks) = iterator

\* a split into several chunks whose last one is shorter
C2_Witness ==
    /\ Subdivided
    /\ Len(chunks) >= 2
    /\ Len(chunks[Len(chunks)]) < Len(chunks[1])

\* C3: collecting the limited map gives the items of the sequential map,
\* in the same order, for every limit and scheduling.
C3_MapEqualsSequential ==
    (pc = "done" /\ method = "map") =>
        (ret.tag = "vec" /\ ret.vec = SeqMap)

\* a collected map over several chunks
C3_Witness ==
    /\ pc = "done"
    /\ method = "map"
    /\ concurrent_limit >= 2
    /\ Len(chunks) >= 2
    /\ N >= 3
    /\ ret.vec = SeqMap

C5_ChunkSize ==
    Subdivided =>
        chunk_size = (IF concurrent_limit = 0
                      THEN 1
                      ELSE max(1, CeilDiv(N, concurrent_limit)))

\* a length the limit does not divide: the ceiling is what is used
C5_Witness ==
    /\ Subdivided
    /\ concurrent_limit >= 2
    /\ N > concurrent_limit
    /\ N % concurrent_limit # 0
    /\ chunk_size * concurrent_limit > N

\* C6: for num_chunks K > 0 the number of chunks is ceil(N / chunk_size)
\* and is at most K.
C6_ChunkCount ==
    (Subdivided /\ concurrent_limit > 0) =>
        /\ Len(chunks) = CeilDiv(N, chunk_size)
        /\ Len(chunks) <= concurrent_limit

\* fewer chunks than K although there are at least K items
C6_Witness ==
    /\ Subdivided
    /\ concurrent_limit > 0
    /\ N >= concurrent_limit
    /\ Len(chunks) < concurrent_limit

\* C7: the limited any (all) returns what the sequential any (all) returns,
\* whatever the limit, the predicate and the scheduling.
C7_AnyAllEqualSequential ==
    /\ (pc = "done" /\ method = "any") => (ret.tag = "bool" /\ ret.bool = SeqAny)
    /\ (pc = "done" /\ method = "all") => (ret.tag = "bool" /\ ret.bool = SeqAll)

\* a short-circuit that dropped a sibling chunk
C7_Witness ==
    /\ pc = "done"
    /\ method \in {"any", "all"}
    /\ concurrent_limit >= 2
    /\ \E c \in Units : status[c] = "skipped"
    /\ \E c \in Units : status[c] = "done" /\ brk[c] # NoItem

\* C8 as stated: try_for_each with K = 2 over 0..10 (chunks 0-4 and 5-9)
\* and a function failing on item 4 only returns that failure, and once the
\* failure is reported the other chunk begins no new item.
C8_Original ==
    /\ [](pc = "done" => (ret.tag = "err" /\ ret.err = 4))
    /\ [][full => \A c \in Units : open'[c] => open[c]]_vars

\* C8 amended: the call returns that failure, and once the failure is
\* reported a chunk that has not been started is never started, so it begins
\* no item; a chunk whose pass has started goes on through its items.
C8_FailureStopsNewChunks ==
    /\ [](pc = "done" => (ret.tag = "err" /\ ret.err = 4))
    /\ [][full => \A c \in Units :
                    status[c] = "pending" =>
                        (status'[c] \in {"pending", "skipped"} /\ ~open'[c])]_vars

\* the failure was reported while the second chunk had not started
C8_Witness ==
    /\ method = "try_for_each"
    /\ concurrent_limit = 2
    /\ N = 10
    /\ opset = {4}
    /\ pc = "done"
    /\ ret.err = 4
    /\ status = <<"done", "skipped">>

\* C9: try_for_each returns a failure exactly when the function fails on
\* some item of the sequence, and that failure is one the function returned.
C9_TryForEachResult ==
    (pc = "done" /\ method = "try_for_each") =>
        /\ (Failures # {} => (ret.tag = "err" /\ ret.err \in Failures))
        /\ (Failures = {} => ret.tag = "ok")

\* several chunks failed and one of their failures came back
C9_Witness ==
    /\ pc = "done"
    /\ method = "try_for_each"
    /\ concurrent_limit >= 2
    /\ Cardinality(broken) >= 2
    /\ ret.tag = "err"

\* C10: collecting the limited filter (filter_map) gives the items of the
\* sequential filter (filter_map), in the original order.
C10_FilterEqualsSequential ==
    /\ (pc = "done" /\ method = "filter") =>
          (ret.tag = "vec" /\ ret.vec = SeqFilter)
    /\ (pc = "done" /\ method = "filter_map") =>
          (ret.tag = "vec" /\ ret.vec = SeqFilterMap)

\* survivors from more than one chunk, and an item filtered out
C10_Witness ==
    /\ pc = "done"
    /\ method \in {"filter", "filter_map"}
    /\ concurrent_limit >= 2
    /\ Len(chunks) >= 2
    /\ Len(ret.vec) >= 2
    /\ Len(ret.vec) < N
    /\ out[1] # <<>>
    /\ out[2] # <<>>

\* ---- C11: a limited update that has returned ran the mutating function
\* exactly once on each item of the input and emitted the N mutated items in
\* input order: none dropped, none duplicated, none mutated twice
SeqUpdate == [i \in 1..N |-> update_op(iterator[i])]

C11_UpdateExactlyOnce ==
    (pc = "done" /\ method = "update") =>
        /\ ret.tag = "vec"
        /\ ret.vec = SeqUpdate
        /\ \A i \in 1..N : calls[i] = 1

C11_Witness ==
    /\ pc = "done"
    /\ method = "update"
    /\ concurrent_limit = 2
    /\ N = 4
    /\ Len(chunks) = 2
    /\ ret.vec = <<1, 2, 3, 4>>
    /\ \A i \in 1..N : calls[i] = 1

\* ---- C12: on an empty input (N = 0), for every limit including 0 and 1,
\* the call does not fail, iter_subdivide yields no chunk, the function is
\* never entered, for_each returns normally, the collecting methods return
\* an empty output, any returns false and all returns true
C12_EmptyInput ==
    N = 0 =>
        /\ pc # "panic"
        /\ (Subdivided => chunks = <<>>)
        /\ threads_active = 0
        /\ threads_active_max = 0
        /\ \A c \in Units : ~open[c]
        /\ (pc = "done" /\ method \in {"for_each", "try_for_each"}) =>
              ret.tag \in {"unit", "ok"}
        /\ (pc = "done" /\ method \in Lazy) =>
              (ret.tag = "vec" /\ ret.vec = <<>>)
        /\ (pc = "done" /\ method = "any") =>
              (ret.tag = "bool" /\ ret.bool = FALSE)
        /\ (pc = "done" /\ method = "all") =>
              (ret.tag = "bool" /\ ret.bool = TRUE)

\* all over an empty input with a limit that subdivides has returned true
C12_Witness ==
    /\ N = 0
    /\ pc = "done"
    /\ method = "all"
    /\ concurrent_limit = 2
    /\ path = "chunked"
    /\ chunks = <<>>
    /\ ret.bool = TRUE

\* ---- C13: the limit bounds the invocations of the function, not the
\* parallel work an invocation launches: with a limit K >= 1 the open
\* invocations never exceed K, while the items of nested loops running at one
\* instant are bounded by the pool only and do exceed K on a larger pool
InnerActive ==
    Sum(helpers) + Cardinality({c \in Units : inner_own[c]})

C13_NestedNotLimited ==
    /\ Cardinality(OpenUnits) <= concurrent_limit
    /\ threads_active <= concurrent_limit
    /\ threads_active_max <= concurrent_limit
    /\ InnerActive <= num_threads

\* limit 2 on a pool of 3: three nested items run at once under two open
\* invocations
C13_Witness ==
    /\ nested
    /\ concurrent_limit = 2
    /\ num_threads > concurrent_limit
    /\ InnerActive > concurrent_limit
    /\ Cardinality(OpenUnits) = 2
    /\ threads_active_max <= concurrent_limit

\* ---- C14: with a further map chained on the handle of a limited map (limit
\* K >= 1) and the result collected, the invocations of the chained closure
\* open at one instant never exceed K; the collected output is the input
\* passed through both closures, in order
ChainOpen == {c \in Units : down[c] = "open"}

C15_UnsupportedRejected ==
    method \notin Methods =>
        /\ pc \in {"call", "compile_error"}
        /\ Units = {}
        /\ threads_active = 0
        /\ \A i \in 1..N : calls[i] = 0
        /\ ret = NoRet

C15_Witness ==
    /\ method = "reduce"
    /\ concurrent_limit = 0
    /\ N = 4
    /\ pc = "compile_error"
    /\ Units = {}

\* ---- C16: the chunk boundaries iter_subdivide produces depend on
\* num_chunks and the length only: a second call with the same num_chunks on
\* any sequence of the same length, whatever its items, gives the same number
\* of chunks with the same lengths; and the boundaries of a call do not move
\* while the chunks are scheduled and run
ChunkLens(cs) == [i \in DOMAIN cs |-> Len(cs[i])]

\* the sequences of a given length over two item values
OtherIterators(n) == [1..n -> {0, 1}]

JustSubdivided ==
    /\ pc = "running"
    /\ path = "chunked"
    /\ \A c \in Units : status[c] = "pending"

C16_SubdivideDeterministic ==
    /\ [](JustSubdivided =>
             \A other \in OtherIterators(N) :
                 ChunkLens(iter_subdivide(concurrent_limit, other)) = ChunkLens(chunks))
    /\ [][pc = "running" => chunks' = chunks]_vars

\* 0..4 under a limit of 3 is cut 2 + 2, and so is <<1, 1, 0, 1>>; the
\* chunks are still cut that way when the call has returned
C16_Witness ==
    /\ pc = "done"
    /\ path = "chunked"
    /\ concurrent_limit = 3
    /\ N = 4
    /\ ChunkLens(chunks) = <<2, 2>>
    /\ ChunkLens(iter_subdivide(concurrent_limit, <<1, 1, 0, 1>>)) = <<2, 2>>

\* ---- C17: the chunk-size arithmetic of iter_subdivide cannot fail: for
\* every word-sized num_chunks and length, (length + num_chunks - 1) /
\* num_chunks does not overflow the word, does not divide by zero (the call
\* does not panic), and the chunk size is at least 1
C17_ArithmeticCannotFail ==
    (pc # "call" /\ path = "chunked") =>
        /\ ~subdivide_overflows(concurrent_limit, N)
        /\ pc # "panic"
        /\ chunk_size >= 1

\* ---- C18: for a non-empty input and every limit, the chunks of
\* iter_subdivide all have the computed chunk size, which is at least 1,
\* except possibly the last: its length is N mod chunk_size when that is not
\* zero, and chunk_size otherwise
C18_UniformChunks ==
    (Subdivided /\ N > 0) =>
        /\ chunk_size >= 1
        /\ Len(chunks) >= 1
        /\ \A i \in 1..(Len(chunks) - 1) : Len(chunks[i]) = chunk_size
        /\ Len(chunks[Len(chunks)]) =
              IF N % chunk_size # 0 THEN N % chunk_size ELSE chunk_size

\* three items under a limit of 2: a full chunk of 2 and a last chunk of 1
C18_Witness ==
    /\ Subdivided
    /\ N = 3
    /\ concurrent_limit = 2
    /\ chunk_size = 2
    /\ ChunkLens(chunks) = <<2, 1>>

\* ---- C19: for every num_chunks >= 1 that does not evenly divide the
\* length N, the last chunk of iter_subdivide is strictly smaller than each
\* of the other chunks
C19_LastChunkSmaller ==
    (Subdivided /\ concurrent_limit >= 1 /\ N % concurrent_limit # 0) =>
        \A i \in 1..(Len(chunks) - 1) :
            Len(chunks[Len(chunks)]) < Len(chunks[i])

OnOwnWorker == {c \in Running : host[c] = 0}

LimitOnePass == Dispatched /\ concurrent_limit = 1 /\ method \in Eager

C21_LimitOneSequential ==
    /\ [](LimitOnePass =>
             /\ path = "sequential"
             /\ chunks = <<iterator>>
             /\ workers_busy = 0
             /\ threads_active <= 1
             /\ Cardinality(OpenUnits) <= 1
             /\ \A i \in 1..N :
                   /\ calls[i] <= 1
                   /\ calls[i] = 1 => \A j \in 1..(i - 1) : calls[j] = 1)
    /\ [][LimitOnePass =>
             \A i \in 1..N :
                 calls'[i] > calls[i] =>
                     /\ threads_active = 0
                     /\ \A j \in 1..(i - 1) : calls[j] = 1]_vars

\* any with a limit of 1 over 0..4, true on item 2: items 0, 1, 2 were entered
\* in turn, item 3 never
C21_Witness ==
    /\ LimitOnePass
    /\ pc = "done"
    /\ method = "any"
    /\ N = 4
    /\ opset = {2}
    /\ calls = <<1, 1, 1, 0>>
    /\ threads_active_max = 1
    /\ ret.bool = TRUE

\* ---- C22: with a limit of 0 no bound is imposed, for each of the eight
\* methods: every item is a work unit of its own (the native parallel form
\* for for_each / try_for_each / any / all, chunks of size 1 for map / update
\* / filter / filter_map), so N invocations can be open at once when the pool
\* has N workers
C22_LimitZeroUnbounded ==
    (Dispatched /\ concurrent_limit = 0) =>
        /\ path = IF method \in Eager THEN "native" ELSE "chunked"
        /\ method \in Lazy => chunk_size = 1
        /\ Len(chunks) = N
        /\ \A c \in Units : chunks[c] = <<iterator[c]>>

\* map with a limit of 0 over three items on three workers: all three
\* invocations are open
C22_Witness ==
    /\ concurrent_limit = 0
    /\ method = "map"
    /\ N = 3
    /\ num_threads = 3
    /\ Cardinality(OpenUnits) = 3
    /\ threads_active = 3

\* ---- C23: within one chunk the invocations are strictly sequential and in
\* input order, for every method and every limit >= 1: the function is
\* entered on the j-th item of a chunk only when the invocation on the
\* (j-1)-th item of that chunk has returned, so a chunk never has two
\* invocations open
Offset(c) == SumLen(SubSeq(chunks, 1, c - 1))

\* the j-th item of chunk c has been entered / has been entered and left
Entered(c, j) == calls[Offset(c) + j] >= 1

Left(c, j) == Entered(c, j) /\ (j < pos[c] \/ status[c] = "done")

C23_SequentialWithinChunk ==
    /\ [](concurrent_limit >= 1 /\ Dispatched =>
             /\ threads_active = Cardinality(OpenUnits)
             /\ threads_active <= Cardinality(Running)
             /\ \A c \in Units : \A j \in 1..Len(chunks[c]) :
                   /\ calls[Offset(c) + j] <= 1
                   /\ Entered(c, j) => \A k \in 1..(j - 1) : Left(c, k))
    /\ [][concurrent_limit >= 1 /\ Dispatched =>
             \A c \in Units : \A j \in 1..Len(chunks[c]) :
                 calls'[Offset(c) + j] > calls[Offset(c) + j] =>
                     /\ ~open[c]
                     /\ \A k \in 1..(j - 1) : Left(c, k)
                     /\ \A k \in j..Len(chunks[c]) : ~Entered(c, k)]_vars

\* filter with a limit of 2 over 0..4: both chunks are in their second item,
\* each with its first invocation returned
C23_Witness ==
    /\ pc = "running"
    /\ method = "filter"
    /\ concurrent_limit = 2
    /\ N = 4
    /\ Len(chunks) = 2
    /\ \A c \in Units : pos[c] = 2 /\ open[c] /\ Left(c, 1) /\ Entered(c, 2)

\* ---- C24: short-circuit inside a chunk: for try_for_each, once the
\* function has failed on an item of a chunk it is never entered on a later
\* item of that chunk; for any (all), once the predicate has returned true
\* (false) on an item of a chunk it is never entered on a later item of it
Terminating(c, j) == pass_brk(method, chunks[c][j]) # NoItem

C24_ShortCircuitInChunk ==
    method \in {"try_for_each", "any", "all"} =>
        \A c \in Units : \A j \in 1..Len(chunks[c]) :
            (Terminating(c, j) /\ Entered(c, j)) =>
                \A k \in (j + 1)..Len(chunks[c]) : ~Entered(c, k)

\* try_for_each with a limit of 2 over 0..4 failing on item 0: the call has
\* returned the failure and item 1, next in the same chunk, was never entered
C24_Witness ==
    /\ pc = "done"
    /\ method = "try_for_each"
    /\ concurrent_limit = 2
    /\ N = 4
    /\ opset = {0}
    /\ Len(chunks[1]) = 2
    /\ Entered(1, 1)
    /\ ~Entered(1, 2)
    /\ ret.tag = "err"

\* ---- C25: no preemption inside a chunk: for try_for_each, any and all with
\* a limit >= 2, a chunk whose pass has started is never stopped by a
\* terminating result found in another chunk; it can always enter its next
\* item, it ends only at its last item or at a terminating item of its own,
\* and when the call returns it has entered every item up to there
OwnStop(c, j) == \E k \in 1..j : Terminating(c, k)

ShortCircuiting == concurrent_limit >= 2 /\ method \in {"try_for_each", "any", "all"}

C25_NoPreemption ==
    /\ [](ShortCircuiting =>
             \A c \in Units :
                 /\ (pc = "running" /\ status[c] = "running" /\ ~open[c]) =>
                       ENABLED Invoke(c)
                 /\ (pc = "done" /\ status[c] = "done") =>
                       \A j \in 1..Len(chunks[c]) :
                           ~OwnStop(c, j - 1) => Entered(c, j))
    /\ [][ShortCircuiting =>
             \A c \in Units :
                 (status[c] = "running" /\ status'[c] # "running") =>
                     /\ status'[c] = "done"
                     /\ pos[c] = Len(chunks[c]) \/ Terminating(c, pos[c])]_vars

\* any with a limit of 2 over 0..4, true on item 0: chunk 1 has ended the
\* search while chunk 2 was between its two items, and chunk 2 goes on
C25_Witness ==
    /\ pc = "running"
    /\ method = "any"
    /\ concurrent_limit = 2
    /\ N = 4
    /\ opset = {0}
    /\ full
    /\ status[1] = "done"
    /\ status[2] = "running"
    /\ pos[2] = 2
    /\ ~open[2]
    /\ ENABLED Invoke(2)

C27_ForEachExactlyOnce ==
    (pc = "done" /\ method = "for_each") =>
        /\ \A i \in 1..N : calls[i] = 1
        /\ threads_active = 0
        /\ ret.tag = "unit"

\* a completed for_each over three items in chunks of two and one
C27_Witness ==
    /\ pc = "done"
    /\ method = "for_each"
    /\ concurrent_limit = 2
    /\ N = 3
    /\ path = "chunked"
    /\ Len(chunks) = 2
    /\ \A i \in 1..N : calls[i] = 1

\* ---- the engine schedules fairly and every invocation terminates: a step
\* that stays possible (a unit taken by an idle worker, the next item of a
\* pass entered, an open invocation returning, the units' results joined) is
\* eventually taken
InitFair ==
    /\ method \in Methods \cup Unsupported
    /\ concurrent_limit \in 0..MaxLimit
    /\ \E n \in 0..MaxFairLen :
          /\ iterator = Range(n)
          /\ opset \in IF method \in UsesOpSet THEN SUBSET (0..(n - 1)) ELSE {{}}
    /\ num_threads \in 1..MaxThreads
    /\ nested = FALSE
    /\ chained = FALSE
    /\ Start
    /\ NoCell

SpecFair == InitFair /\ [][Next]_vars /\ WF_vars(Next)

\* the pass of unit c ran to its end or to a terminating item of its own
FullyProcessed(c) ==
    /\ status[c] = "done"
    /\ ~open[c]
    /\ \A j \in 1..Len(chunks[c]) : Entered(c, j) <=> ~OwnStop(c, j - 1)

\* unit c was dropped before its pass began
Skipped(c) ==
    /\ status[c] = "skipped"
    /\ \A j \in 1..Len(chunks[c]) : ~Entered(c, j)

Completed ==
    /\ pc = "done"
    /\ threads_active = 0
    /\ \A c \in Units : FullyProcessed(c) \/ Skipped(c)

\* ---- C28: if every invocation terminates and the engine schedules fairly,
\* a call of a supported method eventually completes, with every chunk fully
\* processed or skipped; a chunk that has started never waits for another
\* chunk: its next step (entering its next item, or the open invocation
\* returning) is always possible
C28_Termination ==
    /\ (pc = "call" /\ method \in Methods) ~> Completed
    /\ [](pc = "running" =>
            \A c \in Units : status[c] = "running" =>
                (ENABLED Invoke(c)) \/ (ENABLED Return(c)))

\* a completed try_for_each on one worker with three chunks: one fully
\* processed up to its failing item, the later ones skipped
C28_Witness ==
    /\ Completed
    /\ method = "try_for_each"
    /\ concurrent_limit = 3
    /\ num_threads = 1
    /\ N = 3
    /\ FullyProcessed(1)
    /\ Skipped(2)
    /\ Skipped(3)

\* positions of the items the function fails on
FailingAt == {i \in 1..N : try_op(iterator[i]) # NoItem}

\* the lowest of them
FirstFailing == CHOOSE i \in FailingAt : \A j \in FailingAt : i <= j

\* ---- C29: with concurrent_limit == 1, try_for_each over an iterator with
\* a failing item returns the failure of the failing item of lowest index,
\* has invoked the function exactly once on every item before it (and on it),
\* and never invokes the function on any item after it
C29_LimitOneFirstFailure ==
    (Dispatched /\ method = "try_for_each" /\ concurrent_limit = 1
                /\ FailingAt # {}) =>
        /\ \A i \in 1..N : i > FirstFailing => calls[i] = 0
        /\ \A i \in 1..N : calls[i] <= 1
        /\ pc = "done" =>
              /\ ret.tag = "err"
              /\ ret.err = try_op(iterator[FirstFailing])
              /\ \A i \in 1..FirstFailing : calls[i] = 1

\* four items, the second and the fourth fail: the call returned the second
\* item's failure after entering the first two items only
C29_Witness ==
    /\ pc = "done"
    /\ method = "try_for_each"
    /\ concurrent_limit = 1
    /\ N = 4
    /\ opset = {1, 3}
    /\ FirstFailing = 2
    /\ ret.tag = "err"
    /\ ret.err = 1
    /\ calls = <<1, 1, 0, 0>>

\* the region of the buffer the handle was made over
WholeBuffer ==
    IF ctor = "new" THEN [ptr |-> 0, len |-> Len(data)]
    ELSE [ptr |-> vec_len, len |-> Len(data) - vec_len]

\* ---- C30: for every UnsafeCellSlice, over a buffer of any length including
\* an empty slice and a Vec with no spare capacity, as_mut_slice does not fail
\* and every slice it returns, however often it is called, covers the whole
\* underlying buffer with the same length
C30_AsMutSliceWholeBuffer ==
    /\ cell_pc # "panic"
    /\ \A v \in DOMAIN views : views[v] = WholeBuffer

====
